---- MODULE Spec2Model ----
(***************************************************************************)
(* Model of the GeometryExplorer React component                           *)
(* (src/src/components/GeometryExplorer/GeometryExplorer.tsx).             *)
(*                                                                         *)
(* The component state (useState cells, refs), the three.js resources it   *)
(* creates (geometries, materials, renderers, the mesh, the scene), the    *)
(* host container, localStorage and the requestAnimationFrame queue are    *)
(* the variables.  Every effect body is an operator from component state   *)
(* to component state; an action is one event handler together with the    *)
(* commit React performs for it (the effects whose dependencies changed,   *)
(* in declaration order, and the unmount that follows an effect that       *)
(* threw).                                                                 *)
(***************************************************************************)
EXTENDS Integers, Sequences, FiniteSets, TLC

VARIABLES
    phase,            \* "Rendered" (first render done, effects not yet run), "Mounted", "Unmounted"
    mountRef,         \* TRUE iff mountRef.current is a container element
    containerRect,    \* what mountRef.current.getBoundingClientRect() reports: [width, height]
    storage,          \* localStorage: key -> stored string (Absent = no entry)
    wireframe,        \* useState wireframe
    autoRotate,       \* useState autoRotate
    selectedGeometry, \* useState selectedGeometry (catalog name)
    wireframeRef,     \* wireframeRef.current
    autoRotateRef,    \* autoRotateRef.current
    geoms,            \* every BufferGeometry created: [shape, disposed (number of dispose() calls)]
    materials,        \* every MeshPhongMaterial created: [color, wireframe, version, disposed];
                      \* version counts the needsUpdate = true assignments
    renderers,        \* every WebGLRenderer created: [disposed, size (setSize arguments)]
    rendererRef,      \* rendererRef.current (0 = null)
    cameraRef,        \* cameraRef.current: [set (FALSE = null), aspect = <<dividend, divisor>>]
    hostChildren,     \* renderer ids whose domElement is a child of the container
    currentMeshRef,   \* currentMeshRef.current: [id, geometry, material, rotX, rotY] (id 0 = null)
    meshCount,        \* number of Mesh objects created
    sceneFurniture,   \* lights and helpers in the current scene
    sceneMeshes,      \* mesh ids in the current scene
    animRef,          \* animRef.current (0 = null)
    rafNext,          \* next handle requestAnimationFrame returns
    pending,          \* handles of frame requests not yet fired or cancelled
    renders,          \* number of renderer.render calls
    listeners,        \* number of registered window resize listeners
    cleanup,          \* closure returned by the setup effect: [registered, geometry, material, renderer]
    mounts,           \* number of times the effects were mounted
    errorSurfaced     \* TRUE iff an effect threw (React unmounts the tree and reports the error)

vars == << phase, mountRef, containerRect, storage, wireframe, autoRotate, selectedGeometry,
           wireframeRef, autoRotateRef, geoms, materials, renderers, rendererRef,
           cameraRef, hostChildren, currentMeshRef, meshCount, sceneFurniture, sceneMeshes,
           animRef, rafNext, pending, renders, listeners, cleanup, mounts,
           errorSurfaced >>

----------------------------------------------------------------------------
(* Bounds *)

MaxGeoms == 4
MaxFrames == 3
MaxMounts == 2
MaxVersion == 4

----------------------------------------------------------------------------
(* Catalog *)

\* variant: a Platonic solid listed among the primitives
geometriesInterleaved ==
    << [name |-> "Sphere",       category |-> "Primitivas", color |-> "#FF6B6B"],
       [name |-> "Box",          category |-> "Primitivas", color |-> "#44aa88"],
       [name |-> "Dodecahedron", category |-> "Platonicos", color |-> "#FF6F91"],
       [name |-> "Cone",         category |-> "Primitivas", color |-> "#556270"],
       [name |-> "Cylinder",     category |-> "Primitivas", color |-> "#C7F464"],
       [name |-> "Torus",        category |-> "Primitivas", color |-> "#FFA500"],
       [name |-> "TorusKnot",    category |-> "Primitivas", color |-> "#6A0572"],
       [name |-> "Icosahedron",  category |-> "Platonicos", color |-> "#00BFFF"] >>

geometries ==
    << [name |-> "Sphere",       category |-> "Primitivas", color |-> "#FF6B6B"],
       [name |-> "Box",          category |-> "Primitivas", color |-> "#44aa88"],
       [name |-> "Cone",         category |-> "Primitivas", color |-> "#556270"],
       [name |-> "Cylinder",     category |-> "Primitivas", color |-> "#C7F464"],
       [name |-> "Torus",        category |-> "Primitivas", color |-> "#FFA500"],
       [name |-> "TorusKnot",    category |-> "Primitivas", color |-> "#6A0572"],
       [name |-> "Dodecahedron", category |-> "Platonicos", color |-> "#FF6F91"],
       [name |-> "Icosahedron",  category |-> "Platonicos", color |-> "#00BFFF"] >>

ShapeNames == { geometries[i].name : i \in 1..Len(geometries) }

\* the reducer of categorizedGeometries: push geom onto its category's list,
\* creating the list (as the last key of the object) on first use
AddToCategory(acc, geom) ==
    IF \E i \in 1..Len(acc) : acc[i].category = geom.category
    THEN LET i == CHOOSE j \in 1..Len(acc) : acc[j].category = geom.category
         IN [acc EXCEPT ![i].items = Append(@, geom)]
    ELSE Append(acc, [category |-> geom.category, items |-> <<geom>>])

RECURSIVE ReduceByCategory(_, _)
\* list.reduce(reducer, acc)
ReduceByCategory(list, acc) ==
    IF list = << >> THEN acc
    ELSE ReduceByCategory(Tail(list), AddToCategory(acc, Head(list)))

\* the object as Object.entries enumerates it: <<[category, items], ...>>
categorizedGeometries == ReduceByCategory(geometries, << >>)

RECURSIVE RenderedButtons(_)
\* the shape buttons in document order: entries.map(geoms.map(button))
RenderedButtons(groups) ==
    IF groups = << >> THEN << >>
    ELSE Head(groups).items \o RenderedButtons(Tail(groups))

ColorOf(n) == geometries[CHOOSE i \in 1..Len(geometries) : geometries[i].name = n].color

\* the buttons the user clicks: the initial shape and the two of the
\* Box-then-Torus scenario
ClickedNames ==
    LET buttons == RenderedButtons(categorizedGeometries)
    IN { buttons[i].name : i \in { j \in 1..Len(buttons) :
                                     buttons[j].name \in {"Sphere", "Box", "Torus"} } }

\* rotation.x += 0.01, rotation.y += 0.015, in thousandths of a radian
RotStepX == 10
RotStepY == 15

\* rect.width || 800, rect.height || 600
DefaultWidth == 800
DefaultHeight == 600

\* bounds the container can report
Rects == { [width |-> 0, height |-> 0],
           [width |-> 0, height |-> 300],
           [width |-> 400, height |-> 300] }

----------------------------------------------------------------------------
(* localStorage *)

Absent == "<absent>"
StoredValues == { Absent, "true", "false", "yes" }
Keys == { "wireframe", "autoRotate" }

\* String(b)
BoolToString(b) == IF b THEN "true" ELSE "false"

\* variant: wireframe loaded like auto-rotate, off only for the string "false"
LoadWireframeLenient(st) == st["wireframe"] # "false"

\* localStorage.getItem('wireframe') === 'true'
LoadWireframe(st) == st["wireframe"] = "true"

\* variant: auto-rotate loaded like wireframe, on only for the string "true"
LoadAutoRotateStrict(st) == st["autoRotate"] = "true"

\* localStorage.getItem('autoRotate') !== 'false'
LoadAutoRotate(st) == st["autoRotate"] # "false"

\* localStorage.setItem(key, value); ok = FALSE is the call throwing
SetItem(s, key, value, ok) ==
    IF ok THEN [s EXCEPT !.storage[key] = value]
          ELSE [s EXCEPT !.errorSurfaced = TRUE]

----------------------------------------------------------------------------
(* Component state as one record, so that effects compose *)

NoMesh == [id |-> 0, geometry |-> 0, material |-> 0, rotX |-> 0, rotY |-> 0]
NoCamera == [set |-> FALSE, aspect |-> <<0, 0>>]
NoCleanup == [registered |-> FALSE, geometry |-> 0, material |-> 0, renderer |-> 0]

State ==
    [ phase |-> phase, mountRef |-> mountRef, containerRect |-> containerRect,
      storage |-> storage,
      wireframe |-> wireframe, autoRotate |-> autoRotate,
      selectedGeometry |-> selectedGeometry,
      wireframeRef |-> wireframeRef, autoRotateRef |-> autoRotateRef,
      geoms |-> geoms, materials |-> materials, renderers |-> renderers,
      rendererRef |-> rendererRef, cameraRef |-> cameraRef,
      hostChildren |-> hostChildren,
      currentMeshRef |-> currentMeshRef, meshCount |-> meshCount,
      sceneFurniture |-> sceneFurniture, sceneMeshes |-> sceneMeshes,
      animRef |-> animRef, rafNext |-> rafNext, pending |-> pending,
      renders |-> renders, listeners |-> listeners, cleanup |-> cleanup,
      mounts |-> mounts, errorSurfaced |-> errorSurfaced ]

Becomes(s) ==
    /\ phase' = s.phase
    /\ mountRef' = s.mountRef
    /\ containerRect' = s.containerRect
    /\ storage' = s.storage
    /\ wireframe' = s.wireframe
    /\ autoRotate' = s.autoRotate
    /\ selectedGeometry' = s.selectedGeometry
    /\ wireframeRef' = s.wireframeRef
    /\ autoRotateRef' = s.autoRotateRef
    /\ geoms' = s.geoms
    /\ materials' = s.materials
    /\ renderers' = s.renderers
    /\ rendererRef' = s.rendererRef
    /\ cameraRef' = s.cameraRef
    /\ hostChildren' = s.hostChildren
    /\ currentMeshRef' = s.currentMeshRef
    /\ meshCount' = s.meshCount
    /\ sceneFurniture' = s.sceneFurniture
    /\ sceneMeshes' = s.sceneMeshes
    /\ animRef' = s.animRef
    /\ rafNext' = s.rafNext
    /\ pending' = s.pending
    /\ renders' = s.renders
    /\ listeners' = s.listeners
    /\ cleanup' = s.cleanup
    /\ mounts' = s.mounts
    /\ errorSurfaced' = s.errorSurfaced

----------------------------------------------------------------------------
(* three.js resources *)

\* geometry.dispose()
DisposeGeometry(s, g) == [s EXCEPT !.geoms[g].disposed = @ + 1]

\* material.dispose()
DisposeMaterial(s, m) == [s EXCEPT !.materials[m].disposed = @ + 1]

\* renderer.dispose()
DisposeRenderer(s, r) == [s EXCEPT !.renderers[r].disposed = @ + 1]

\* selectedGeometry.create(): a fresh geometry, its id is Len(geoms) afterwards
CreateGeometry(s) ==
    [s EXCEPT !.geoms = Append(@, [shape |-> s.selectedGeometry, disposed |-> 0])]

----------------------------------------------------------------------------
(* Effects *)

\* variant: the mirror ref is synchronised but nothing is written to storage
WireframeSyncEffectNoWrite(s, ok) == [s EXCEPT !.wireframeRef = s.wireframe]

\* useEffect(..., [wireframe]) of lines 105-108
WireframeSyncEffect(s, ok) ==
    SetItem([s EXCEPT !.wireframeRef = s.wireframe],
            "wireframe", BoolToString(s.wireframe), ok)

\* useEffect(..., [autoRotate]) of lines 110-113
AutoRotateSyncEffect(s, ok) ==
    SetItem([s EXCEPT !.autoRotateRef = s.autoRotate],
            "autoRotate", BoolToString(s.autoRotate), ok)

\* variant: the loop rotates on every tick, whatever the setting
AnimateAlwaysRotates(s) ==
    LET s1 == [s EXCEPT !.animRef = s.rafNext,
                        !.pending = @ \cup {s.rafNext},
                        !.rafNext = @ + 1]
        s2 == IF s1.currentMeshRef.id # 0
              THEN [s1 EXCEPT !.currentMeshRef.rotX = @ + RotStepX,
                              !.currentMeshRef.rotY = @ + RotStepY]
              ELSE s1
    IN [s2 EXCEPT !.renders = @ + 1]

\* animate: schedule the next frame, rotate when enabled, redraw
Animate(s) ==
    LET s1 == [s EXCEPT !.animRef = s.rafNext,
                        !.pending = @ \cup {s.rafNext},
                        !.rafNext = @ + 1]
        s2 == IF s1.autoRotateRef /\ s1.currentMeshRef.id # 0
              THEN [s1 EXCEPT !.currentMeshRef.rotX = @ + RotStepX,
                              !.currentMeshRef.rotY = @ + RotStepY]
              ELSE s1
    IN [s2 EXCEPT !.renders = @ + 1]

\* variant: the previous renderer is disposed but its element stays in the host
CleanPreviousRendererKeepsElement(s) ==
    IF s.rendererRef # 0 THEN DisposeRenderer(s, s.rendererRef) ELSE s

\* "Limpiar renderer anterior", lines 119-125
CleanPreviousRenderer(s) ==
    IF s.rendererRef # 0
    THEN LET s1 == DisposeRenderer(s, s.rendererRef)
         IN IF s.rendererRef \in s1.hostChildren
            THEN [s1 EXCEPT !.hostChildren = @ \ {s.rendererRef}]
            ELSE s1
    ELSE s

\* the body of the setup effect after its guard, lines 119-182
BuildViewport(s) ==
    LET s1 == CleanPreviousRenderer(s)
        r  == Len(s1.renderers) + 1
        width  == s.containerRect.width
        height == s.containerRect.height
        s2 == [s1 EXCEPT !.sceneFurniture = {}, !.sceneMeshes = {},
                         !.cameraRef = [set |-> TRUE, aspect |-> <<width, height>>],
                         !.renderers = Append(@, [disposed |-> 0,
                                                  size |-> <<width, height>>]),
                         !.rendererRef = r,
                         !.hostChildren = @ \cup {r}]
        s3 == [s2 EXCEPT !.sceneFurniture = {"ambient", "dir", "axes", "grid"}]
        s4 == CreateGeometry(s3)
        g  == Len(s4.geoms)
        m  == Len(s4.materials) + 1
        k  == s4.meshCount + 1
        s5 == [s4 EXCEPT !.materials = Append(@, [color |-> ColorOf(s.selectedGeometry),
                                                  wireframe |-> s.wireframe,
                                                  version |-> 0,
                                                  disposed |-> 0]),
                         !.meshCount = k,
                         !.sceneMeshes = @ \cup {k},
                         !.currentMeshRef = [id |-> k, geometry |-> g, material |-> m,
                                             rotX |-> 0, rotY |-> 0]]
        s6 == Animate(s5)
    IN [s6 EXCEPT !.listeners = @ + 1,
                  !.cleanup = [registered |-> TRUE, geometry |-> g,
                               material |-> m, renderer |-> r]]

\* variant: the setup effect without its container guard
SetupEffectUnguarded(s) == BuildViewport(s)

\* the setup effect, useEffect(..., []) of lines 116-192
SetupEffect(s) == IF ~s.mountRef THEN s ELSE BuildViewport(s)

\* variant: the resize handler uses the reported bounds as they are
HandleResizeNoFallback(s) ==
    IF ~s.mountRef \/ ~s.cameraRef.set \/ s.rendererRef = 0 THEN s
    ELSE
    LET w == s.containerRect.width
        h == s.containerRect.height
    IN [s EXCEPT !.cameraRef.aspect = <<w, h>>,
                 !.renderers[s.rendererRef].size = <<w, h>>]

\* handleResize, lines 172-180
HandleResize(s) ==
    IF ~s.mountRef \/ ~s.cameraRef.set \/ s.rendererRef = 0 THEN s
    ELSE
    LET w == IF s.containerRect.width # 0 THEN s.containerRect.width ELSE DefaultWidth
        h == IF s.containerRect.height # 0 THEN s.containerRect.height ELSE DefaultHeight
    IN [s EXCEPT !.cameraRef.aspect = <<w, h>>,
                 !.renderers[s.rendererRef].size = <<w, h>>]

\* variant: teardown without cancelAnimationFrame
CleanupNoCancel(s) ==
    IF ~s.cleanup.registered THEN s
    ELSE
    LET s1 == [s EXCEPT !.listeners = @ - 1]
        s3 == DisposeGeometry(s1, s.cleanup.geometry)
        s4 == DisposeMaterial(s3, s.cleanup.material)
        s5 == [s4 EXCEPT !.sceneFurniture = {}, !.sceneMeshes = {}]
        s6 == DisposeRenderer(s5, s.cleanup.renderer)
    IN [s6 EXCEPT !.cleanup = NoCleanup]

\* the function the setup effect returns, lines 184-191
Cleanup(s) ==
    IF ~s.cleanup.registered THEN s
    ELSE
    LET s1 == [s EXCEPT !.listeners = @ - 1]
        s2 == IF s1.animRef # 0 THEN [s1 EXCEPT !.pending = @ \ {s1.animRef}] ELSE s1
        s3 == DisposeGeometry(s2, s.cleanup.geometry)
        s4 == DisposeMaterial(s3, s.cleanup.material)
        s5 == [s4 EXCEPT !.sceneFurniture = {}, !.sceneMeshes = {}]
        s6 == DisposeRenderer(s5, s.cleanup.renderer)
    IN [s6 EXCEPT !.cleanup = NoCleanup]

\* variant: the geometry is swapped without disposing the old one
SelectionEffectKeepsOld(s) ==
    IF s.currentMeshRef.id = 0 THEN s
    ELSE
    LET s2 == CreateGeometry(s)
        m  == s.currentMeshRef.material
    IN [s2 EXCEPT !.currentMeshRef.geometry = Len(s2.geoms),
                  !.materials[m].color = ColorOf(s.selectedGeometry),
                  !.materials[m].wireframe = s.wireframeRef,
                  !.materials[m].version = @ + 1]

\* variant: the material color is left as it was
SelectionEffectStaleColor(s) ==
    IF s.currentMeshRef.id = 0 THEN s
    ELSE
    LET s1 == DisposeGeometry(s, s.currentMeshRef.geometry)
        s2 == CreateGeometry(s1)
        m  == s.currentMeshRef.material
    IN [s2 EXCEPT !.currentMeshRef.geometry = Len(s2.geoms),
                  !.materials[m].wireframe = s.wireframeRef,
                  !.materials[m].version = @ + 1]

\* variant: the material is disposed together with the old geometry
SelectionEffectDisposesMaterial(s) ==
    IF s.currentMeshRef.id = 0 THEN s
    ELSE
    LET s1 == DisposeGeometry(s, s.currentMeshRef.geometry)
        s2 == CreateGeometry(s1)
        m  == s.currentMeshRef.material
    IN [s2 EXCEPT !.currentMeshRef.geometry = Len(s2.geoms),
                  !.materials[m].color = ColorOf(s.selectedGeometry),
                  !.materials[m].wireframe = s.wireframeRef,
                  !.materials[m].version = @ + 1,
                  !.materials[m].disposed = @ + 1]

\* variant: the selection builds a new mesh instead of swapping the geometry
SelectionEffectNewMesh(s) ==
    IF s.currentMeshRef.id = 0 THEN s
    ELSE
    LET s1 == DisposeGeometry(s, s.currentMeshRef.geometry)
        s2 == CreateGeometry(s1)
        m  == s.currentMeshRef.material
        k  == s.meshCount + 1
    IN [s2 EXCEPT !.meshCount = k,
                  !.sceneMeshes = (@ \ {s.currentMeshRef.id}) \cup {k},
                  !.currentMeshRef = [id |-> k, geometry |-> Len(s2.geoms),
                                      material |-> m, rotX |-> 0, rotY |-> 0],
                  !.materials[m].color = ColorOf(s.selectedGeometry),
                  !.materials[m].wireframe = s.wireframeRef,
                  !.materials[m].version = @ + 1]

\* useEffect(..., [selectedGeometry]) of lines 195-210
SelectionEffect(s) ==
    IF s.currentMeshRef.id = 0 THEN s
    ELSE
    LET s1 == DisposeGeometry(s, s.currentMeshRef.geometry)
        s2 == CreateGeometry(s1)
        m  == s.currentMeshRef.material
    IN [s2 EXCEPT !.currentMeshRef.geometry = Len(s2.geoms),
                  !.materials[m].color = ColorOf(s.selectedGeometry),
                  !.materials[m].wireframe = s.wireframeRef,
                  !.materials[m].version = @ + 1]

\* variant: the material is marked for re-upload but its flag is not written
WireframeEffectKeepsFlag(s) ==
    IF s.currentMeshRef.id = 0 THEN s
    ELSE [s EXCEPT !.materials[s.currentMeshRef.material].version = @ + 1]

\* useEffect(..., [wireframe]) of lines 213-218
WireframeEffect(s) ==
    IF s.currentMeshRef.id = 0 THEN s
    ELSE LET m == s.currentMeshRef.material
         IN [s EXCEPT !.materials[m].wireframe = s.wireframe,
                      !.materials[m].version = @ + 1]

\* end of a commit: an effect that threw makes React unmount the tree
Commit(s) ==
    IF s.errorSurfaced THEN [Cleanup(s) EXCEPT !.phase = "Unmounted"] ELSE s

----------------------------------------------------------------------------
(* Initial state: the first render has run its useState initializers *)

\* the state a page load produces: useState initializers read localStorage,
\* refs hold their initial values, nothing has been created yet
InitialState(st, mr, rect) ==
    [ phase |-> "Rendered", mountRef |-> mr, containerRect |-> rect, storage |-> st,
      wireframe |-> LoadWireframe(st), autoRotate |-> LoadAutoRotate(st),
      selectedGeometry |-> geometries[1].name,
      wireframeRef |-> LoadWireframe(st), autoRotateRef |-> LoadAutoRotate(st),
      geoms |-> << >>, materials |-> << >>, renderers |-> << >>,
      rendererRef |-> 0, cameraRef |-> NoCamera, hostChildren |-> {},
      currentMeshRef |-> NoMesh, meshCount |-> 0,
      sceneFurniture |-> {}, sceneMeshes |-> {},
      animRef |-> 0, rafNext |-> 1, pending |-> {},
      renders |-> 0, listeners |-> 0, cleanup |-> NoCleanup,
      mounts |-> 0, errorSurfaced |-> FALSE ]

Init ==
    \E st \in [Keys -> StoredValues], mr \in BOOLEAN, rect \in Rects :
        LET s == InitialState(st, mr, rect)
        IN /\ phase = s.phase
           /\ mountRef = s.mountRef
           /\ containerRect = s.containerRect
           /\ storage = s.storage
           /\ wireframe = s.wireframe
           /\ autoRotate = s.autoRotate
           /\ selectedGeometry = s.selectedGeometry
           /\ wireframeRef = s.wireframeRef
           /\ autoRotateRef = s.autoRotateRef
           /\ geoms = s.geoms
           /\ materials = s.materials
           /\ renderers = s.renderers
           /\ rendererRef = s.rendererRef
           /\ cameraRef = s.cameraRef
           /\ hostChildren = s.hostChildren
           /\ currentMeshRef = s.currentMeshRef
           /\ meshCount = s.meshCount
           /\ sceneFurniture = s.sceneFurniture
           /\ sceneMeshes = s.sceneMeshes
           /\ animRef = s.animRef
           /\ rafNext = s.rafNext
           /\ pending = s.pending
           /\ renders = s.renders
           /\ listeners = s.listeners
           /\ cleanup = s.cleanup
           /\ mounts = s.mounts
           /\ errorSurfaced = s.errorSurfaced

----------------------------------------------------------------------------
(* Actions *)

\* React mounts the effects: all five run, in declaration order
Mount(ok1, ok2) ==
    /\ phase \in {"Rendered", "Unmounted"}
    /\ ~errorSurfaced
    /\ mounts < MaxMounts
    /\ mountRef => (Len(geoms) + 2 <= MaxGeoms /\ renders < MaxFrames)
    /\ LET s0 == [State EXCEPT !.phase = "Mounted", !.mounts = @ + 1]
           s1 == WireframeSyncEffect(s0, ok1)
           s2 == AutoRotateSyncEffect(s1, ok2)
           s3 == SetupEffect(s2)
           s4 == SelectionEffect(s3)
           s5 == WireframeEffect(s4)
       IN Becomes(Commit(s5))

\* React unmounts the effects
Unmount ==
    /\ phase = "Mounted"
    /\ Becomes([Cleanup(State) EXCEPT !.phase = "Unmounted"])

\* variant: a selection also resets the wireframe setting
SelectShapeResetsWireframe(n) ==
    /\ phase = "Mounted"
    /\ Len(geoms) < MaxGeoms
    /\ IF n = selectedGeometry
       THEN UNCHANGED vars
       ELSE Becomes(Commit(SelectionEffect(
                [State EXCEPT !.selectedGeometry = n, !.wireframe = FALSE])))

\* onClick={() => setSelectedGeometry(geom)}
SelectShape(n) ==
    /\ phase = "Mounted"
    /\ Len(geoms) < MaxGeoms
    /\ IF n = selectedGeometry
       THEN UNCHANGED vars
       ELSE Becomes(Commit(SelectionEffect([State EXCEPT !.selectedGeometry = n])))

\* needsUpdate assignments the displayed material has received
MaterialVersion ==
    IF currentMeshRef.id = 0 THEN 0 ELSE materials[currentMeshRef.material].version

\* onClick={() => setWireframe(!wireframe)}
ToggleWireframe(ok) ==
    /\ phase = "Mounted"
    /\ MaterialVersion < MaxVersion
    /\ LET s0 == [State EXCEPT !.wireframe = ~wireframe]
           s1 == WireframeSyncEffect(s0, ok)
           s2 == WireframeEffect(s1)
       IN Becomes(Commit(s2))

\* onClick={() => setAutoRotate(!autoRotate)}
ToggleAutoRotate(ok) ==
    /\ phase = "Mounted"
    /\ LET s0 == [State EXCEPT !.autoRotate = ~autoRotate]
           s1 == AutoRotateSyncEffect(s0, ok)
       IN Becomes(Commit(s1))

\* the browser fires a pending frame request
FrameTick ==
    /\ renders < MaxFrames
    /\ \E id \in pending :
         Becomes(Animate([State EXCEPT !.pending = @ \ {id}]))

\* the window fires 'resize' while the listener is registered; the container
\* reports rect from now on
Resize(rect) ==
    /\ listeners > 0
    /\ Becomes(HandleResize([State EXCEPT !.containerRect = rect]))

\* the page is loaded again: a new component instance, the same localStorage
Reload ==
    /\ phase = "Unmounted"
    /\ Becomes(InitialState(storage, mountRef, containerRect))

Next ==
    \/ \E ok1, ok2 \in BOOLEAN : Mount(ok1, ok2)
    \/ Unmount
    \/ \E n \in ClickedNames : SelectShape(n)
    \/ \E ok \in BOOLEAN : ToggleWireframe(ok)
    \/ \E ok \in BOOLEAN : ToggleAutoRotate(ok)
    \/ FrameTick
    \/ \E rect \in Rects : Resize(rect)
    \/ Reload

Spec == Init /\ [][Next]_vars

----------------------------------------------------------------------------
TypeOK ==
    /\ phase \in {"Rendered", "Mounted", "Unmounted"}
    /\ storage \in [Keys -> StoredValues]
    /\ selectedGeometry \in ShapeNames
    /\ animRef \in Nat
    /\ pending \subseteq 1..rafNext

----------------------------------------------------------------------------
(* Vocabulary of the properties *)

\* the viewport is Running: effects mounted and the setup effect built a scene
Running == phase = "Mounted" /\ cleanup.registered

\* the viewport was torn down: unmounted, with a mesh left behind in the ref
TornDown == phase = "Unmounted" /\ currentMeshRef.id # 0

\* geometries created and never disposed
LiveGeoms == { g \in 1..Len(geoms) : geoms[g].disposed = 0 }

----------------------------------------------------------------------------
(* C1: after teardown the geometry attached to the displayed mesh and the  *)
(* mesh's material have been released, and no geometry or material that    *)
(* was created remains unreleased.                                         *)
C1_TeardownReleasesAll ==
    (TornDown /\ ~errorSurfaced) =>
        /\ geoms[currentMeshRef.geometry].disposed >= 1
        /\ materials[currentMeshRef.material].disposed >= 1
        /\ \A g \in 1..Len(geoms) : geoms[g].disposed >= 1
        /\ \A m \in 1..Len(materials) : materials[m].disposed >= 1

(* C2: while Running exactly one geometry is live (created and not         *)
(* released), and it is the one attached to the displayed mesh.            *)
C2_OneLiveGeometry ==
    Running => LiveGeoms = {currentMeshRef.geometry}

(* C3: a click on shape B while shape A is displayed ends with the mesh    *)
(* holding a fresh geometry from B's factory, the material coloured with   *)
(* B's color, and exactly one dispose call on the geometry that was        *)
(* attached for A.                                                         *)
C3_SelectAThenB ==
    [][ (Running /\ phase' = "Mounted" /\ selectedGeometry' # selectedGeometry) =>
          LET a == currentMeshRef.geometry
              b == currentMeshRef'.geometry
          IN /\ geoms[a].shape = selectedGeometry
             /\ geoms[a].disposed = 0
             /\ geoms'[a].disposed = 1
             /\ b # a
             /\ geoms'[b].shape = selectedGeometry'
             /\ geoms'[b].disposed = 0
             /\ currentMeshRef'.id = currentMeshRef.id
             /\ currentMeshRef'.material = currentMeshRef.material
             /\ materials'[currentMeshRef.material].color = ColorOf(selectedGeometry')
      ]_vars

C3_Witness ==
    /\ Running
    /\ selectedGeometry = "Torus"
    /\ geoms[currentMeshRef.geometry].shape = "Torus"
    /\ materials[currentMeshRef.material].color = "#FFA500"
    /\ \E g \in 1..Len(geoms) : geoms[g].shape = "Box" /\ geoms[g].disposed = 1

(* C4: after teardown no frame request is pending, and as long as the      *)
(* component stays unmounted (no new mount) nothing is redrawn and the     *)
(* mesh is not rotated: the per-frame callback neither runs nor            *)
(* reschedules itself.                                                     *)
C4_NoFrameAfterTeardown ==
    /\ [](phase = "Unmounted" => pending = {})
    /\ [][ (phase = "Unmounted" /\ phase' = "Unmounted" /\ mounts' = mounts) =>
             (renders' = renders /\ currentMeshRef' = currentMeshRef /\ pending' = {}) ]_vars

C4_Witness ==
    TornDown /\ renders >= 3 /\ animRef >= 3 /\ ~errorSurfaced

(* C5: after teardown the host container has no render-surface element as  *)
(* a child.                                                                *)
C5_HostEmptyAfterTeardown ==
    (phase = "Unmounted" /\ ~errorSurfaced) => hostChildren = {}

(* C6: while auto-rotate is off the per-frame callback stays scheduled and *)
(* each tick redraws, but the rotation angles of the mesh do not change;   *)
(* a tick taken while auto-rotate is on advances both angles by one step:  *)
(* the loop applies the setting current at the tick.                       *)
C6_AutoRotateOffKeepsAngles ==
    [][ Running =>
          /\ pending # {}
          /\ (~autoRotate /\ currentMeshRef'.id = currentMeshRef.id) =>
                 /\ currentMeshRef'.rotX = currentMeshRef.rotX
                 /\ currentMeshRef'.rotY = currentMeshRef.rotY
          /\ (phase' = "Mounted" /\ renders' # renders) =>
                 /\ renders' = renders + 1
                 /\ pending' # {}
                 /\ currentMeshRef'.rotX =
                        currentMeshRef.rotX + (IF autoRotate THEN RotStepX ELSE 0)
                 /\ currentMeshRef'.rotY =
                        currentMeshRef.rotY + (IF autoRotate THEN RotStepY ELSE 0)
      ]_vars

\* three animate calls of which exactly one rotated, auto-rotate now off:
\* at least one tick fired while auto-rotate was off
C6_Witness ==
    /\ Running
    /\ ~autoRotate
    /\ mounts = 1
    /\ renders = 3
    /\ currentMeshRef.rotX = RotStepX
    /\ currentMeshRef.rotY = RotStepY

(* C7: a toggle whose write to storage fails still takes effect in memory  *)
(* (state, mirror ref, material), surfaces no error and leaves the widget  *)
(* running.                                                                *)
C7_WriteFailureSwallowed ==
    [][ /\ (phase = "Mounted" /\ wireframe' # wireframe
                /\ storage'["wireframe"] # BoolToString(wireframe')) =>
              /\ wireframeRef' = wireframe'
              /\ ~errorSurfaced'
              /\ phase' = "Mounted"
        /\ (phase = "Mounted" /\ autoRotate' # autoRotate
                /\ storage'["autoRotate"] # BoolToString(autoRotate')) =>
              /\ autoRotateRef' = autoRotate'
              /\ ~errorSurfaced'
              /\ phase' = "Mounted"
      ]_vars

(* C8: while the component is mounted the value stored under "wireframe"   *)
(* is the string "true" or "false" that spells the current wireframe       *)
(* setting, and likewise "autoRotate" for the auto-rotate setting.         *)
C8_StorageMirrorsSettings ==
    phase = "Mounted" =>
        /\ storage["wireframe"] = (IF wireframe THEN "true" ELSE "false")
        /\ storage["autoRotate"] = (IF autoRotate THEN "true" ELSE "false")

\* the mesh was never rotated, so auto-rotate was off when it was built and
\* has been toggled on since
C8_Witness ==
    /\ Running
    /\ autoRotate
    /\ currentMeshRef.rotX = 0
    /\ storage["autoRotate"] = "true"

(* C9: at startup auto-rotate is off exactly when the stored "autoRotate"  *)
(* value is the string "false", and wireframe is on exactly when the       *)
(* stored "wireframe" value is the string "true".                          *)
C9_StartupLoadPolicy ==
    phase = "Rendered" =>
        /\ (~autoRotate) <=> (storage["autoRotate"] = "false")
        /\ wireframe <=> (storage["wireframe"] = "true")

C9_Witness ==
    /\ phase = "Rendered"
    /\ storage["autoRotate"] = "yes" /\ autoRotate
    /\ storage["wireframe"] = Absent /\ ~wireframe

(* C10: a user action changes only its own state field: a selection leaves *)
(* both settings and their stored values alone, a wireframe toggle leaves  *)
(* the selection and auto-rotate alone, an auto-rotate toggle leaves the   *)
(* selection and wireframe alone.                                          *)
C10_IndependentFields ==
    [][ phase = "Mounted" =>
          /\ (selectedGeometry' # selectedGeometry) =>
                (wireframe' = wireframe /\ autoRotate' = autoRotate /\ storage' = storage)
          /\ (wireframe' # wireframe) =>
                (selectedGeometry' = selectedGeometry /\ autoRotate' = autoRotate)
          /\ (autoRotate' # autoRotate) =>
                (selectedGeometry' = selectedGeometry /\ wireframe' = wireframe)
      ]_vars

\* a selection has acted (not the initial shape) and auto-rotate was toggled
\* on after the mesh was built
C10_Witness ==
    /\ Running
    /\ selectedGeometry # geometries[1].name
    /\ autoRotate
    /\ currentMeshRef.rotX = 0
    /\ wireframe

----------------------------------------------------------------------------
(* Vocabulary of the later properties *)

\* the material of the displayed mesh
Mat == materials[currentMeshRef.material]

\* a step a user event or a frame takes inside one mount cycle
StaysRunning == Running /\ phase' = "Mounted"

\* a step in which the resize handler ran
ResizeStep ==
    /\ StaysRunning
    /\ (containerRect' # containerRect \/ cameraRef' # cameraRef \/ renderers' # renderers)

----------------------------------------------------------------------------
(* C11: inside a mount cycle every wireframe toggle negates the material's *)
(* wireframe flag and no other event changes it, so two toggles, with any  *)
(* events between them, bring the flag back to its value.                  *)
C11_WireframeTogglePair ==
    [][ StaysRunning =>
          /\ currentMeshRef'.material = currentMeshRef.material
          /\ materials'[currentMeshRef.material].wireframe =
                (IF wireframe' # wireframe THEN ~Mat.wireframe ELSE Mat.wireframe)
      ]_vars

\* one mount, no selection, the material touched twice after the mount:
\* two wireframe toggles, flag as the mount left it
C11_Witness ==
    /\ Running
    /\ mounts = 1
    /\ Len(geoms) = 2
    /\ Mat.version = 4
    /\ Mat.wireframe = wireframe

(* C12 as stated: a resize with zero reported width sets the render        *)
(* surface to 800x600 and the camera aspect to 800/600.                    *)
C12_ZeroWidthGivesDefaults ==
    [][ (ResizeStep /\ containerRect'.width = 0) =>
          /\ renderers'[rendererRef].size = <<DefaultWidth, DefaultHeight>>
          /\ cameraRef'.aspect = <<DefaultWidth, DefaultHeight>>
      ]_vars

(* C12 amended: a resize with zero reported width sets the surface width   *)
(* to 800 and the height to the reported height, or to 600 when that is    *)
(* zero too; the camera aspect is that width over that height, neither of  *)
(* them zero.                                                              *)
C12_ZeroWidthFallsBackPerDimension ==
    [][ (ResizeStep /\ containerRect'.width = 0) =>
          LET h == IF containerRect'.height = 0 THEN DefaultHeight
                                                ELSE containerRect'.height
          IN /\ renderers'[rendererRef].size = <<DefaultWidth, h>>
             /\ cameraRef'.aspect = <<DefaultWidth, h>>
             /\ cameraRef'.aspect[1] # 0
             /\ cameraRef'.aspect[2] # 0
      ]_vars

C12_Witness ==
    /\ Running
    /\ containerRect = [width |-> 0, height |-> 300]
    /\ renderers[rendererRef].size = <<800, 300>>
    /\ cameraRef.aspect = <<800, 300>>

(* C13: mounted without a container, the component has created no render   *)
(* surface, camera, geometry, material, mesh, frame request or resize      *)
(* listener, whatever events followed; selection and settings still follow *)
(* the events (mirror refs and storage in step with the state).            *)
C13_AbsentContainerSkipsInit ==
    (phase = "Mounted" /\ ~mountRef) =>
        /\ renderers = << >> /\ rendererRef = 0 /\ hostChildren = {}
        /\ ~cameraRef.set
        /\ geoms = << >> /\ materials = << >>
        /\ currentMeshRef = NoMesh /\ meshCount = 0
        /\ sceneMeshes = {} /\ sceneFurniture = {}
        /\ pending = {} /\ animRef = 0 /\ renders = 0
        /\ listeners = 0 /\ ~cleanup.registered
        /\ ~errorSurfaced
        /\ wireframeRef = wireframe /\ autoRotateRef = autoRotate
        /\ storage["wireframe"] = BoolToString(wireframe)
        /\ storage["autoRotate"] = BoolToString(autoRotate)

\* a selection was made after the skipped initialization
C13_Witness ==
    /\ phase = "Mounted"
    /\ ~mountRef
    /\ selectedGeometry = "Torus"
    /\ wireframe /\ ~autoRotate
    /\ geoms = << >>

(* C14: a mount that starts from empty storage and ends mounted is Running *)
(* with "Sphere" selected, wireframe off, auto-rotate on and exactly one   *)
(* mesh in the scene.                                                      *)
C14_MountWithEmptyStorage ==
    [][ (/\ phase = "Rendered"
         /\ storage = [k \in Keys |-> Absent]
         /\ mountRef
         /\ phase' = "Mounted") =>
          /\ Running'
          /\ selectedGeometry' = "Sphere"
          /\ selectedGeometry' = geometries[1].name
          /\ ~wireframe'
          /\ autoRotate'
          /\ Cardinality(sceneMeshes') = 1
          /\ sceneMeshes' = {currentMeshRef'.id}
          /\ geoms'[currentMeshRef'.geometry].shape = "Sphere"
      ]_vars

C14_Witness ==
    /\ Running
    /\ mounts = 1 /\ renders = 1 /\ Len(geoms) = 2 /\ Mat.version = 2
    /\ selectedGeometry = "Sphere"
    /\ ~wireframe /\ autoRotate
    /\ sceneMeshes = {1}

(* C15: in every phase of the component (the catalog is memoized for its  *)
(* lifetime) the catalog's names are pairwise distinct, and the buttons    *)
(* rendered from the grouped catalog, read in order, are the flat catalog. *)
C15_CatalogGroupingRoundTrip ==
    phase \in {"Rendered", "Mounted", "Unmounted"} =>
        /\ \A i, j \in 1..Len(geometries) :
              geometries[i].name = geometries[j].name => i = j
        /\ RenderedButtons(categorizedGeometries) = geometries

\* the grouped catalog as rendered: two categories, of six and two shapes
C15_Witness ==
    /\ phase = "Rendered"
    /\ Len(categorizedGeometries) = 2
    /\ categorizedGeometries[1].category = "Primitivas"
    /\ Len(categorizedGeometries[1].items) = 6
    /\ categorizedGeometries[2].category = "Platonicos"
    /\ Len(categorizedGeometries[2].items) = 2

(* C16: while Running the displayed mesh agrees with the controller state: *)
(* geometry of the selected shape, material color of the selected shape,   *)
(* material wireframe flag equal to the wireframe setting.                 *)
C16_MeshConsistentWithState ==
    Running =>
        /\ geoms[currentMeshRef.geometry].shape = selectedGeometry
        /\ geoms[currentMeshRef.geometry].disposed = 0
        /\ Mat.color = ColorOf(selectedGeometry)
        /\ Mat.wireframe = wireframe

\* one mount, one selection and one wireframe toggle, in either order
C16_Witness ==
    /\ Running
    /\ mounts = 1
    /\ Len(geoms) = 3
    /\ Mat.version = 4
    /\ selectedGeometry = "Box"
    /\ Mat.color = "#44aa88"
    /\ storage["wireframe"] = "true"
    /\ Mat.wireframe

(* C17: inside a mount cycle a wireframe toggle changes only the wireframe *)
(* flag (and the re-upload mark) of the displayed material; an auto-rotate *)
(* toggle changes nothing in the scene; a selection disposes only the      *)
(* attached geometry, appends one geometry and keeps the material, which   *)
(* stays undisposed while Running.                                         *)
C17_TargetedMutations ==
    [][ StaysRunning =>
          LET m == currentMeshRef.material
              a == currentMeshRef.geometry
              sceneSame == /\ sceneMeshes' = sceneMeshes
                           /\ sceneFurniture' = sceneFurniture
                           /\ renderers' = renderers
                           /\ cameraRef' = cameraRef
                           /\ hostChildren' = hostChildren
          IN /\ Mat.disposed = 0
             /\ materials'[m].disposed = 0
             /\ (wireframe' # wireframe) =>
                   /\ geoms' = geoms
                   /\ currentMeshRef' = currentMeshRef
                   /\ materials' = [materials EXCEPT ![m].wireframe = wireframe',
                                                     ![m].version = @ + 1]
                   /\ sceneSame
             /\ (autoRotate' # autoRotate) =>
                   /\ geoms' = geoms
                   /\ materials' = materials
                   /\ currentMeshRef' = currentMeshRef
                   /\ sceneSame
             /\ (selectedGeometry' # selectedGeometry) =>
                   /\ Len(geoms') = Len(geoms) + 1
                   /\ \A g \in 1..Len(geoms) :
                         geoms'[g] = (IF g = a THEN [geoms[g] EXCEPT !.disposed = @ + 1]
                                               ELSE geoms[g])
                   /\ Len(materials') = Len(materials)
                   /\ currentMeshRef'.material = m
                   /\ \A k \in 1..Len(materials) : k # m => materials'[k] = materials[k]
                   /\ sceneSame
      ]_vars

\* one mount followed by one selection and one wireframe toggle; the first
\* geometry attached was disposed by the selection, the material never
C17_Witness ==
    /\ Running
    /\ mounts = 1
    /\ Len(geoms) = 3
    /\ Len(materials) = 1
    /\ Mat.version = 4
    /\ selectedGeometry = "Torus"
    /\ geoms[2].disposed = 1
    /\ Mat.disposed = 0

(* C18: the host never holds more than one render-surface element; every   *)
(* renderer other than the current one has been disposed and is not in the *)
(* host, and while Running the host holds exactly the current one.         *)
C18_OneSurfaceInHost ==
    /\ Cardinality(hostChildren) <= 1
    /\ Running => hostChildren = {rendererRef}
    /\ \A r \in 1..Len(renderers) :
          r # rendererRef => (renderers[r].disposed >= 1 /\ r \notin hostChildren)

\* a re-mount in the same instance has replaced the first render surface
C18_Witness ==
    /\ Running
    /\ mounts = 2
    /\ Len(renderers) = 2
    /\ rendererRef = 2
    /\ hostChildren = {2}
    /\ renderers[1].disposed >= 1

(* C19: over mount cycles that end by a regular unmount, no geometry       *)
(* receives more than one dispose call.                                    *)
C19_NoDoubleDispose ==
    ~errorSurfaced => \A g \in 1..Len(geoms) : geoms[g].disposed <= 1

(* C20: a selection keeps the mesh object and its rotation angles; the     *)
(* angles of a mesh change only in a call of the per-frame callback with   *)
(* auto-rotate on, and every such call adds exactly one step to both; a    *)
(* new mesh starts from zero with the one call the setup makes.            *)
C20_RotationOnlyByFrames ==
    [][ /\ (StaysRunning /\ selectedGeometry' # selectedGeometry) =>
              /\ currentMeshRef'.id = currentMeshRef.id
              /\ currentMeshRef'.rotX = currentMeshRef.rotX
              /\ currentMeshRef'.rotY = currentMeshRef.rotY
        /\ (currentMeshRef.id # 0 /\ currentMeshRef'.id = currentMeshRef.id) =>
              /\ (currentMeshRef'.rotX # currentMeshRef.rotX
                    \/ currentMeshRef'.rotY # currentMeshRef.rotY) =>
                       (renders' = renders + 1 /\ autoRotate)
              /\ (renders' # renders /\ autoRotate) =>
                       /\ currentMeshRef'.rotX = currentMeshRef.rotX + RotStepX
                       /\ currentMeshRef'.rotY = currentMeshRef.rotY + RotStepY
        /\ (currentMeshRef'.id # 0 /\ currentMeshRef'.id # currentMeshRef.id) =>
              /\ renders' = renders + 1
              /\ currentMeshRef'.rotX = (IF autoRotate' THEN RotStepX ELSE 0)
              /\ currentMeshRef'.rotY = (IF autoRotate' THEN RotStepY ELSE 0)
      ]_vars

\* rotation accumulated over two calls survives a selection
C20_Witness ==
    /\ Running
    /\ mounts = 1
    /\ meshCount = 1
    /\ Len(geoms) >= 3
    /\ selectedGeometry # geometries[1].name
    /\ currentMeshRef.rotX = 2 * RotStepX
    /\ currentMeshRef.rotY = 2 * RotStepY

====
